---- MODULE Spec2Model ----
(***************************************************************************)
(* KVSWebRTCClient (src/lib/kvs-webrtc.ts): the negotiation engine that    *)
(* resolves a signaling channel, creates an RTCPeerConnection and a        *)
(* SignalingClient, exchanges offer / answer / ICE candidates and buffers  *)
(* remote candidates until the remote description is set.                  *)
(*                                                                         *)
(* One engine instance is modelled.  Its caller may call connect() and     *)
(* disconnect() at any time; every await of the code is a suspension       *)
(* point, so each asynchronous function is a sequence of atomic steps.     *)
(* An RTCPeerConnection runs its asynchronous methods one at a time, in    *)
(* call order (its operations chain); the continuation of the awaiting     *)
(* code runs in the same step as the completion of the operation.          *)
(***************************************************************************)
EXTENDS Integers, Sequences, FiniteSets, TLC

\* ---------------------------------------------------------------- bounds
MaxConnects == 3    \* connect() calls made by the caller
MaxCands    == 2    \* remote ICE candidates delivered by the signaling channel
MaxSdp      == 2    \* SDP offers and answers delivered by the signaling channel
MaxFaults   == 1    \* failures of the environment: failed requests, timeouts, signaling
                    \* errors, malformed messages, a failed or interrupted transport
MaxTracks   == 2    \* inbound tracks the transport delivers
MaxStates   == 3    \* connection-state changes the transport reports
MaxLocal    == 2    \* local ICE candidates one peer connection gathers

Ids       == 1 .. MaxConnects    \* the n-th connect() call, its peer connection, its signaling client
RemoteIds == 1 .. 2              \* remote client ids R1, R2 carried by offers
Ok        == {TRUE, FALSE}       \* a delivered message is well-formed or malformed
Callbacks == {1, 2}              \* the functions the caller registers as observers

\* What the environment and the caller do in one run: the role the engine is
\* constructed with, the relay descriptors the credential provider returns, whether
\* the caller gives a stream to connect(), how many failures, candidates, session
\* descriptions, inbound tracks and connection-state changes there are, and which
\* observers the caller registers.  connects is how many times the caller calls
\* connect(), disconnect whether it calls disconnect(), local how many local ICE
\* candidates a peer connection gathers, cbs the functions the caller registers.
\* A run is a negotiation with remote candidates, or one that delivers media, or one
\* whose transport changes state, or one that gathers local candidates, or one in
\* which the caller registers its observers again, or one in which a master's
\* caller calls connect() three times and never disconnect().
Roles == {"MASTER", "VIEWER"}

Budgets ==
    { [roles |-> Roles, relays |-> {1}, streams |-> {FALSE}, faults |-> MaxFaults,
       cands |-> MaxCands, sdp |-> MaxSdp, tracks |-> 0, states |-> 0, regs |-> {},
       cbs |-> {}, connects |-> MaxConnects - 1, disconnect |-> TRUE, local |-> 0],
      [roles |-> Roles, relays |-> {0}, streams |-> {TRUE}, faults |-> 0,
       cands |-> 0, sdp |-> MaxSdp, tracks |-> MaxTracks, states |-> 0, regs |-> {"remote"},
       cbs |-> {1}, connects |-> MaxConnects - 1, disconnect |-> TRUE, local |-> 0],
      [roles |-> Roles, relays |-> {0}, streams |-> {FALSE}, faults |-> MaxFaults,
       cands |-> 0, sdp |-> 1, tracks |-> 0, states |-> MaxStates, regs |-> {"state", "error"},
       cbs |-> {1}, connects |-> MaxConnects - 1, disconnect |-> TRUE, local |-> 0],
      [roles |-> Roles, relays |-> {0}, streams |-> {FALSE}, faults |-> 0,
       cands |-> 0, sdp |-> MaxSdp, tracks |-> 0, states |-> 0, regs |-> {},
       cbs |-> {}, connects |-> MaxConnects - 1, disconnect |-> TRUE, local |-> MaxLocal],
      [roles |-> Roles, relays |-> {-1, 0}, streams |-> {FALSE}, faults |-> MaxFaults,
       cands |-> 0, sdp |-> 1, tracks |-> 1, states |-> 2,
       regs |-> {"remote", "state", "error"},
       cbs |-> Callbacks, connects |-> 1, disconnect |-> TRUE, local |-> 0],
      [roles |-> {"MASTER"}, relays |-> {1}, streams |-> {FALSE}, faults |-> 0,
       cands |-> MaxCands, sdp |-> MaxSdp, tracks |-> 0, states |-> 0, regs |-> {},
       cbs |-> {}, connects |-> MaxConnects, disconnect |-> FALSE, local |-> 0] }

VARIABLES
    ctorRole,              \* the role argument given to the constructor
    relays,                \* environment: how many relay descriptors GetIceServerConfig returns
                           \* in its IceServerList; -1 = the response has no IceServerList
    limit,                 \* environment: the budget of this run, one of Budgets
    role,                  \* this.role
    localStream,           \* this.localStream: 0 = undefined, n = the stream given to the n-th connect()
    remoteStream,          \* this.remoteStream: 0 = undefined, else the aggregate's index in streams
    peerConnection,        \* this.peerConnection: 0 = undefined, else the peer connection's id
    signalingClient,       \* this.signalingClient: 0 = undefined, else the signaling client's id
    pendingICECandidates,  \* this.pendingICECandidates
    onRemoteStreamCallback,             \* this.onRemoteStreamCallback: 0 = undefined
    onConnectionStateChangeCallback,    \* this.onConnectionStateChangeCallback: 0 = undefined
    onErrorCallback,                    \* this.onErrorCallback: 0 = undefined
    conn,                  \* the connect() calls: where each one is suspended, or how it settled
    pc,                    \* the RTCPeerConnection objects created so far
    sc,                    \* the SignalingClient objects created so far
    streams,               \* the MediaStream objects the engine created: the tracks of each
    stopped,               \* the media tracks on which stop() was called
    remoteSeen,            \* the calls of the remote-stream observer
    stateSeen,             \* the calls of the connection-state observer
    errors,                \* the calls of the error observer
    reports,               \* the connection-state changes of the peer connections, in order
    delivered,             \* the session descriptions the signaling channel delivered: their kinds
    nConnects, nCands, nSdp, nFaults,   \* how many calls / events have happened
    nTracks, nStates

\* the three observer slots
observers == <<onRemoteStreamCallback, onConnectionStateChangeCallback, onErrorCallback>>
\* inbound media
media == <<remoteStream, streams, remoteSeen, nTracks>>
\* the transport's connection state
states == <<stateSeen, reports, nStates>>

vars == <<ctorRole, relays, limit, role, localStream, peerConnection, signalingClient,
          pendingICECandidates, conn, pc, sc, stopped, errors, observers, media, states,
          nConnects, nCands, nSdp, delivered, nFaults>>

\* ------------------------------------------------------- values and objects
NoDesc == [type |-> "none", src |-> 0, rid |-> 0, n |-> 0, ok |-> TRUE]
NoCand == [id |-> 0, ok |-> TRUE]

\* A session description created by peer connection p (createOffer / createAnswer).
LocalDesc(t, p) == [type |-> t, src |-> p, rid |-> 0, n |-> 0, ok |-> TRUE]
\* The n-th session description received from the signaling channel, sent by remote id r
\* (0 = no sender id); ok = FALSE is a description the transport rejects.
RemoteDesc(t, r, n, ok) == [type |-> t, src |-> 0, rid |-> r, n |-> n, ok |-> ok]

\* Media tracks: the track of the stream the caller gave to the t-th connect(), and
\* the k-th inbound track, delivered by peer connection p.
LocalTrack(t) == [pc |-> 0, n |-> t]
RemoteTrack(p, k) == [pc |-> p, n |-> k]

\* A connect() call: st is where it is suspended or how it settled; arn is what the
\* Channel Resolver answered ("none" so far, "ok", or "missing": no ChannelARN);
\* cancelled: disconnect() was called while it was suspended; timer is the timer of
\* waitForConnection: "none" (not created), "armed", "cleared" or "fired"; reqs is
\* the requests the call has made: "describe" (DescribeSignalingChannel), "endpoint"
\* (GetSignalingChannelEndpoint), "ice" (GetIceServerConfig), "open"
\* (signalingClient.open()).
NoConn == [st |-> "unused", err |-> "none", arn |-> "none", cancelled |-> FALSE,
           timer |-> "none", reqs |-> <<>>]
\* An RTCPeerConnection: cs is its connectionState, out the stream whose tracks were
\* added to it (0 = none), closes how many times close() was called on it, gathered
\* how many local ICE candidates it has gathered, complete whether it has reported
\* the end of gathering, born how many remote candidates the engine had received
\* when it was created.
NoPc   == [st |-> "none", sig |-> "stable", remote |-> NoDesc, local |-> NoDesc,
           ice |-> 0, chain |-> <<>>, applied |-> <<>>, calls |-> <<>>, flushes |-> 0,
           cs |-> "new", out |-> 0, closes |-> 0, gathered |-> 0, complete |-> FALSE,
           born |-> 0]
\* A SignalingClient: clientId is the clientId of its configuration: 0 = none, else
\* the identifier generated by the connect() call of that number.
NoSc   == [st |-> "none", clientId |-> 0, opened |-> FALSE, sent |-> <<>>,
           closes |-> 0]

\* A suspended asynchronous function: the operation it awaits on a peer connection's
\* operations chain, and the locals it resumes with.
\*   fn   : "offer" (sdpOffer handler), "answer" (sdpAnswer handler),
\*          "open" (createAndSendOffer), "cand" (iceCandidate handler)
\*   arr, live, idx : the for-of iterator of the flush loop: the array it walks
\*          (live = it is still the array this.pendingICECandidates refers to) and the
\*          index of the next element.
Op(op, fn, desc, cand, rid, arr, live, idx) ==
    [op |-> op, fn |-> fn, desc |-> desc, cand |-> cand, rid |-> rid,
     arr |-> arr, live |-> live, idx |-> idx]

\* Mutant of RoleOf: the two branches of the conditional swapped.
RoleOf_swapped(arg) == IF arg = "MASTER" THEN "VIEWER" ELSE "MASTER"

\* constructor, line 34: this.role = role === 'MASTER' ? Role.MASTER : Role.VIEWER
RoleOf(arg) == IF arg = "MASTER" THEN "MASTER" ELSE "VIEWER"

Init ==
    /\ limit \in Budgets
    /\ ctorRole \in limit.roles
    /\ relays \in limit.relays
    /\ role = RoleOf(ctorRole)
    /\ localStream = 0
    /\ remoteStream = 0
    /\ peerConnection = 0
    /\ signalingClient = 0
    /\ pendingICECandidates = <<>>
    /\ onRemoteStreamCallback = 0
    /\ onConnectionStateChangeCallback = 0
    /\ onErrorCallback = 0
    /\ conn = [t \in Ids |-> NoConn]
    /\ pc = [p \in Ids |-> NoPc]
    /\ sc = [s \in Ids |-> NoSc]
    /\ streams = <<>>
    /\ stopped = {}
    /\ remoteSeen = <<>>
    /\ stateSeen = <<>>
    /\ errors = <<>>
    /\ reports = <<>>
    /\ nConnects = 0
    /\ nCands = 0
    /\ nSdp = 0
    /\ delivered = <<>>
    /\ nFaults = 0
    /\ nTracks = 0
    /\ nStates = 0

\* The step is a normal one (ok), or one more failure of the environment.
Fault(ok) == nFaults' = (IF ok THEN nFaults ELSE nFaults + 1) /\ nFaults' <= limit.faults

InFlight(t) == conn[t].st \in {"describe", "endpoint", "ice", "wait"}

\* ------------------------------------------------------- observer registration
\* onRemoteStream(callback), lines 350-352
OnRemoteStream(cb) ==
    /\ "remote" \in limit.regs
    /\ cb \in limit.cbs
    /\ onRemoteStreamCallback' = cb
    /\ UNCHANGED <<ctorRole, relays, limit, role, localStream, peerConnection, signalingClient,
                   pendingICECandidates, conn, pc, sc, stopped, errors,
                   onConnectionStateChangeCallback, onErrorCallback, media, states,
                   nConnects, nCands, nSdp, delivered, nFaults>>

\* onConnectionStateChange(callback), lines 354-356
OnConnectionStateChange(cb) ==
    /\ "state" \in limit.regs
    /\ cb \in limit.cbs
    /\ onConnectionStateChangeCallback' = cb
    /\ UNCHANGED <<ctorRole, relays, limit, role, localStream, peerConnection, signalingClient,
                   pendingICECandidates, conn, pc, sc, stopped, errors,
                   onRemoteStreamCallback, onErrorCallback, media, states,
                   nConnects, nCands, nSdp, delivered, nFaults>>

\* Mutant of OnError: the callback is stored in the connection-state slot.
OnError_wrongslot(cb) ==
    /\ "error" \in limit.regs
    /\ cb \in limit.cbs
    /\ onConnectionStateChangeCallback' = cb
    /\ UNCHANGED <<ctorRole, relays, limit, role, localStream, peerConnection, signalingClient,
                   pendingICECandidates, conn, pc, sc, stopped, errors,
                   onRemoteStreamCallback, onErrorCallback, media, states,
                   nConnects, nCands, nSdp, delivered, nFaults>>

\* onError(callback), lines 358-360
OnError(cb) ==
    /\ "error" \in limit.regs
    /\ cb \in limit.cbs
    /\ onErrorCallback' = cb
    /\ UNCHANGED <<ctorRole, relays, limit, role, localStream, peerConnection, signalingClient,
                   pendingICECandidates, conn, pc, sc, stopped, errors,
                   onRemoteStreamCallback, onConnectionStateChangeCallback, media, states,
                   nConnects, nCands, nSdp, delivered, nFaults>>

\* `if (this.onErrorCallback) this.onErrorCallback(error)`, lines 200-202, 282-284
\* and 306-308: the error observer, when one is registered, is called with an error
\* of kind e.
Report(errs, e) ==
    IF onErrorCallback = 0 THEN errs ELSE Append(errs, [cb |-> onErrorCallback, e |-> e])

\* ------------------------------------------------------------- connect()
\* connect(localStream?), lines 52-60: stores the stream and sends the
\* DescribeSignalingChannel request; suspends until the response.
Connect(stream) ==
    /\ nConnects < limit.connects
    /\ stream \in limit.streams
    /\ LET t == nConnects + 1 IN
       /\ nConnects' = t
       /\ localStream' = (IF stream THEN t ELSE 0)
       /\ conn' = [conn EXCEPT ![t].st = "describe", ![t].reqs = <<"describe">>]
    /\ UNCHANGED <<ctorRole, relays, limit, role, peerConnection, signalingClient,
                   pendingICECandidates, pc, sc, stopped, errors, observers, media, states,
                   nCands, nSdp, delivered, nFaults>>

\* connect's catch, lines 198-204: the error is reported and rethrown.  The errors
\* are named by kind: "resolution" (no ChannelARN, or the lookup threw), "endpoint"
\* (no endpoint list, or the lookup threw), "credential" (GetIceServerConfig threw),
\* "timeout" ('Connection timeout') and "signaling" (the signaling client's error).
Reject(t, e) == [conn EXCEPT ![t].st = "rejected", ![t].err = e]

\* Mutant of DescribeDone: the `if (!channelARN) throw` of lines 63-65 is missing.
DescribeDone_unchecked(t, res) ==
    /\ conn[t].st = "describe"
    /\ Fault(res = "ok")
    /\ conn' = (CASE res = "ok"    -> [conn EXCEPT ![t].st = "endpoint", ![t].arn = "ok",
                                                   ![t].reqs = Append(@, "endpoint")]
                  [] res = "noarn" -> [conn EXCEPT ![t].st = "endpoint", ![t].arn = "missing",
                                                   ![t].reqs = Append(@, "endpoint")]
                  [] OTHER         -> Reject(t, "resolution"))
    /\ errors' = (IF res = "throw" THEN Report(errors, "resolution") ELSE errors)
    /\ UNCHANGED <<ctorRole, relays, limit, role, localStream, peerConnection, signalingClient,
                   pendingICECandidates, pc, sc, stopped, observers, media, states,
                   nConnects, nCands, nSdp, delivered>>

\* lines 60-77: the DescribeSignalingChannel response arrives ("ok"), arrives
\* without a ChannelARN ("noarn"), or the request throws ("throw").
DescribeDone(t, res) ==
    /\ conn[t].st = "describe"
    /\ Fault(res = "ok")
    /\ conn' = (CASE res = "ok"    -> [conn EXCEPT ![t].st = "endpoint", ![t].arn = "ok",
                                                   ![t].reqs = Append(@, "endpoint")]
                  [] res = "noarn" -> [Reject(t, "resolution") EXCEPT ![t].arn = "missing"]
                  [] OTHER         -> Reject(t, "resolution"))
    /\ errors' = (IF res = "ok" THEN errors ELSE Report(errors, "resolution"))
    /\ UNCHANGED <<ctorRole, relays, limit, role, localStream, peerConnection, signalingClient,
                   pendingICECandidates, pc, sc, stopped, observers, media, states,
                   nConnects, nCands, nSdp, delivered>>

\* Mutant of EndpointDone: a request that throws is sent again.
EndpointDone_retry(t, res) ==
    /\ conn[t].st = "endpoint"
    /\ Fault(res = "ok")
    /\ conn' = (CASE res = "ok"     -> [conn EXCEPT ![t].st = "ice",
                                                    ![t].reqs = Append(@, "ice")]
                  [] res = "throw"  -> [conn EXCEPT ![t].reqs = Append(@, "endpoint")]
                  [] OTHER          -> Reject(t, "endpoint"))
    /\ errors' = (IF res = "nolist" THEN Report(errors, "endpoint") ELSE errors)
    /\ UNCHANGED <<ctorRole, relays, limit, role, localStream, peerConnection, signalingClient,
                   pendingICECandidates, pc, sc, stopped, observers, media, states,
                   nConnects, nCands, nSdp, delivered>>

\* lines 77-98: the GetSignalingChannelEndpoint response arrives ("ok"), arrives
\* without a ResourceEndpointList ("nolist"), or the request throws ("throw").
EndpointDone(t, res) ==
    /\ conn[t].st = "endpoint"
    /\ Fault(res = "ok")
    /\ conn' = (CASE res = "ok"     -> [conn EXCEPT ![t].st = "ice",
                                                    ![t].reqs = Append(@, "ice")]
                  [] OTHER          -> Reject(t, "endpoint"))
    /\ errors' = (IF res = "ok" THEN errors ELSE Report(errors, "endpoint"))
    /\ UNCHANGED <<ctorRole, relays, limit, role, localStream, peerConnection, signalingClient,
                   pendingICECandidates, pc, sc, stopped, observers, media, states,
                   nConnects, nCands, nSdp, delivered>>

\* lines 182-183: `viewer-${Date.now()}-${Math.random().toString(36).substring(2, 11)}`,
\* the identifier the t-th connect() call generates from the clock and the random
\* number generator.
GenerateClientId(t) == t

\* Mutant of NewSignalingClient: the `if (this.role === Role.VIEWER)` of line 181 is
\* missing.
NewSignalingClient_anyrole(r, t) ==
    [NoSc EXCEPT !.st = "connecting", !.clientId = GenerateClientId(t)]

\* lines 168-186 and 193: new SignalingClient(signalingConfig), whose clientId is set
\* for a VIEWER only; open() moves it to CONNECTING.
NewSignalingClient(r, t) ==
    [NoSc EXCEPT !.st = "connecting",
                 !.clientId = IF r = "VIEWER" THEN GenerateClientId(t) ELSE 0]

\* lines 114-117: new RTCPeerConnection({iceServers, ...}), n relay descriptors.
NewPeerConnection(n) == [NoPc EXCEPT !.st = "open", !.ice = n, !.born = nCands]

\* lines 122-127: the tracks of this.localStream are added to the peer connection.
AddTracks(P, stream) == [P EXCEPT !.out = stream]

\* lines 100-109: the iceServers array built from the response: one entry for each
\* element of IceServerList, none when the response has no IceServerList.
IceServers(list) == IF list < 0 THEN 0 ELSE list

\* Mutant of IceDone: a response without relay descriptors is treated as a failure
\* of the credential fetch.
IceDone_requires_relays(t, res) ==
    /\ conn[t].st = "ice"
    /\ Fault(res = "ok")
    /\ IF res = "ok" /\ IceServers(relays) > 0
         THEN /\ conn' = [conn EXCEPT ![t].st = "wait", ![t].timer = "armed",
                                      ![t].reqs = Append(@, "open")]
              /\ pc' = [pc EXCEPT ![t] = AddTracks(NewPeerConnection(IceServers(relays)),
                                                   localStream)]
              /\ sc' = [sc EXCEPT ![t] = NewSignalingClient(role, t)]
              /\ peerConnection' = t
              /\ signalingClient' = t
              /\ errors' = errors
         ELSE /\ conn' = Reject(t, "credential")
              /\ errors' = Report(errors, "credential")
              /\ UNCHANGED <<pc, sc, peerConnection, signalingClient>>
    /\ UNCHANGED <<ctorRole, relays, limit, role, localStream, pendingICECandidates,
                   stopped, observers, media, states, nConnects, nCands, nSdp, delivered>>

\* lines 98-196: the GetIceServerConfig response arrives with the relay descriptors
\* ("ok"), or the request throws ("throw").  On a response the peer connection and
\* the signaling client are created, the handlers registered and the signaling
\* client opened, all in one synchronous run; connect then awaits waitForConnection,
\* which starts its timer (line 314).
IceDone(t, res) ==
    /\ conn[t].st = "ice"
    /\ Fault(res = "ok")
    /\ IF res = "ok"
         THEN /\ conn' = [conn EXCEPT ![t].st = "wait", ![t].timer = "armed",
                                      ![t].reqs = Append(@, "open")]
              /\ pc' = [pc EXCEPT ![t] = AddTracks(NewPeerConnection(IceServers(relays)),
                                                   localStream)]
              /\ sc' = [sc EXCEPT ![t] = NewSignalingClient(role, t)]
              /\ peerConnection' = t
              /\ signalingClient' = t
              /\ errors' = errors
         ELSE /\ conn' = Reject(t, "credential")
              /\ errors' = Report(errors, "credential")
              /\ UNCHANGED <<pc, sc, peerConnection, signalingClient>>
    /\ UNCHANGED <<ctorRole, relays, limit, role, localStream, pendingICECandidates,
                   stopped, observers, media, states, nConnects, nCands, nSdp, delivered>>

\* clearTimeout(timeout), lines 317 and 322
ClearTimeout(c) == IF c.timer = "armed" THEN [c EXCEPT !.timer = "cleared"] ELSE c

\* Mutant of Timeout: the timer resolves the promise instead of rejecting it.
Timeout_resolves(t) ==
    /\ conn[t].timer = "armed"
    /\ Fault(FALSE)
    /\ conn' = (IF conn[t].st = "wait"
                  THEN [conn EXCEPT ![t].st = "resolved", ![t].timer = "fired"]
                  ELSE [conn EXCEPT ![t].timer = "fired"])
    /\ errors' = errors
    /\ UNCHANGED <<ctorRole, relays, limit, role, localStream, peerConnection, signalingClient,
                   pendingICECandidates, pc, sc, stopped, observers, media, states,
                   nConnects, nCands, nSdp, delivered>>

\* waitForConnection, line 314: the 10 s timer fires; the promise, if still
\* pending, is rejected with 'Connection timeout'.
Timeout(t) ==
    /\ conn[t].timer = "armed"
    /\ Fault(FALSE)
    /\ conn' = (IF conn[t].st = "wait"
                  THEN [Reject(t, "timeout") EXCEPT ![t].timer = "fired"]
                  ELSE [conn EXCEPT ![t].timer = "fired"])
    /\ errors' = (IF conn[t].st = "wait" THEN Report(errors, "timeout") ELSE errors)
    /\ UNCHANGED <<ctorRole, relays, limit, role, localStream, peerConnection, signalingClient,
                   pendingICECandidates, pc, sc, stopped, observers, media, states,
                   nConnects, nCands, nSdp, delivered>>

\* ----------------------------------------------------------- disconnect()
\* RTCPeerConnection.close(): the operations still on the chain never settle, so
\* the functions awaiting them never resume; connectionState becomes "closed", and
\* no connectionstatechange event is fired for it.
ClosePc(pcs, p) ==
    [pcs EXCEPT ![p].st = "closed", ![p].chain = <<>>, ![p].cs = "closed",
                ![p].closes = @ + 1]

\* SignalingClient.close()
CloseSc(scs, s) == [scs EXCEPT ![s].st = "closed", ![s].closes = @ + 1]

\* stream.getTracks()
GetTracks(q) == {q[i] : i \in DOMAIN q}

\* Mutant of Disconnect: the references to the peer connection and the signaling
\* client are kept after closing them.
Disconnect_keepref ==
    /\ limit.disconnect
    /\ stopped' = stopped
                    \cup (IF localStream # 0 THEN {LocalTrack(localStream)} ELSE {})
                    \cup (IF remoteStream # 0 THEN GetTracks(streams[remoteStream]) ELSE {})
    /\ localStream' = 0
    /\ remoteStream' = 0
    /\ pc' = (IF peerConnection # 0 THEN ClosePc(pc, peerConnection) ELSE pc)
    /\ reports' = (IF peerConnection # 0
                     THEN Append(reports, [pc |-> peerConnection, s |-> "closed"])
                     ELSE reports)
    /\ sc' = (IF signalingClient # 0 THEN CloseSc(sc, signalingClient) ELSE sc)
    /\ conn' = [t \in Ids |-> IF InFlight(t) THEN [conn[t] EXCEPT !.cancelled = TRUE]
                                             ELSE conn[t]]
    /\ UNCHANGED <<ctorRole, relays, limit, role, pendingICECandidates, errors, observers,
                   peerConnection, signalingClient,
                   streams, remoteSeen, nTracks, stateSeen, nStates,
                   nConnects, nCands, nSdp, delivered, nFaults>>

\* disconnect(), lines 328-348.
Disconnect ==
    /\ limit.disconnect
    /\ stopped' = stopped
                    \cup (IF localStream # 0 THEN {LocalTrack(localStream)} ELSE {})
                    \cup (IF remoteStream # 0 THEN GetTracks(streams[remoteStream]) ELSE {})
    /\ localStream' = 0
    /\ remoteStream' = 0
    /\ pc' = (IF peerConnection # 0 THEN ClosePc(pc, peerConnection) ELSE pc)
    /\ reports' = (IF peerConnection # 0
                     THEN Append(reports, [pc |-> peerConnection, s |-> "closed"])
                     ELSE reports)
    /\ peerConnection' = 0
    /\ sc' = (IF signalingClient # 0 THEN CloseSc(sc, signalingClient) ELSE sc)
    /\ signalingClient' = 0
    /\ conn' = [t \in Ids |-> IF InFlight(t) THEN [conn[t] EXCEPT !.cancelled = TRUE]
                                             ELSE conn[t]]
    /\ UNCHANGED <<ctorRole, relays, limit, role, pendingICECandidates, errors, observers,
                   streams, remoteSeen, nTracks, stateSeen, nStates,
                   nConnects, nCands, nSdp, delivered, nFaults>>

\* ------------------------------------------- RTCPeerConnection (transport)
\* The peer connection accepts a remote description in the signaling states the
\* offer/answer model allows (setRemoteDescription, lines 227 and 250).
CanSetRemote(P, d) ==
    /\ d.ok
    /\ \/ d.type = "offer"  /\ P.sig \in {"stable", "have-remote-offer"}
       \/ d.type = "answer" /\ P.sig = "have-local-offer"

AfterSetRemote(P, d) ==
    [P EXCEPT !.remote = d,
              !.sig = IF d.type = "offer" THEN "have-remote-offer" ELSE "stable"]

\* createAnswer (line 228) needs a remote offer to answer.
CanCreateAnswer(P) == P.sig = "have-remote-offer"

\* setLocalDescription (lines 229 and 301) takes the description the same peer
\* connection created, in a signaling state that allows it.
CanSetLocal(P, p, d) ==
    /\ d.src = p
    /\ \/ d.type = "answer" /\ P.sig = "have-remote-offer"
       \/ d.type = "offer"  /\ P.sig \in {"stable", "have-local-offer"}

AfterSetLocal(P, d) ==
    [P EXCEPT !.local = d,
              !.sig = IF d.type = "offer" THEN "have-local-offer" ELSE "stable"]

\* peerConnection.remoteDescription (line 268)
HasRemoteDescription(P) == P.remote # NoDesc

\* addIceCandidate (lines 235, 255, 272) rejects without a remote description,
\* and rejects a malformed candidate.
CanAddIce(P, c) == HasRemoteDescription(P) /\ c.ok

Pop(pcs, p) == [pcs EXCEPT ![p].chain = Tail(@)]

\* An asynchronous method is called on peer connection q: it joins q's operations
\* chain, and the caller is suspended on it.
Call(pcs, q, o) == [pcs EXCEPT ![q].chain = Append(@, o)]

\* addIceCandidate(c) is called on peer connection q.
CallAdd(pcs, q, o) ==
    [pcs EXCEPT ![q].chain = Append(@, o),
                ![q].calls = Append(@, [c |-> o.cand.id, rd |-> HasRemoteDescription(pcs[q])])]

\* Mutant of CanSend: the client sends in whatever state it is.
CanSend_unchecked(S) == S.st # "none"

\* SignalingClient.send*: throws unless the client is open.
CanSend(S) == S.st = "open"

Send(scs, s, kind, rid, src) ==
    [scs EXCEPT ![s].sent = Append(@, [kind |-> kind, rid |-> rid, src |-> src])]

\* peerConnection.connectionState (line 146) moves as the transport connects, is
\* interrupted or fails.
NextStates(s) ==
    CASE s = "new"          -> {"connecting"}
      [] s = "connecting"   -> {"connected", "failed"}
      [] s = "connected"    -> {"disconnected"}
      [] s = "disconnected" -> {"connected", "failed"}
      [] OTHER              -> {}

\* ------------------------------------------------ the flush loop, lines 234-237 / 254-257
\* this.pendingICECandidates = [] : the iterators still walking the old array keep it.
Detach(pcs, pend) ==
    [p \in Ids |->
        [pcs[p] EXCEPT !.chain =
            [i \in 1 .. Len(pcs[p].chain) |->
                IF pcs[p].chain[i].live
                  THEN [pcs[p].chain[i] EXCEPT !.live = FALSE, !.arr = pend]
                  ELSE pcs[p].chain[i]]]]

\* One turn of `for (const candidate of this.pendingICECandidates)
\*                 await this.peerConnection.addIceCandidate(candidate)`
\* followed, when the iterator is exhausted, by `this.pendingICECandidates = []`.
\* cur is this.peerConnection now; undefined makes the call throw a TypeError, which
\* the handler's catch logs (line 239 / 259).
FlushStep(pcs, pend, cur, fn, rid, arr, live, idx) ==
    LET a == IF live THEN pend ELSE arr IN
    IF idx > Len(a)
      THEN [pcs |-> Detach(pcs, pend), pend |-> <<>>]
      ELSE IF cur = 0
        THEN [pcs |-> pcs, pend |-> pend]
        ELSE [pcs |-> CallAdd(pcs, cur, Op("addIce", fn, NoDesc, a[idx], rid, arr, live, idx + 1)),
              pend |-> pend]

\* The loop is entered by the handler that resumed on peer connection p.
FlushStart(pcs, pend, cur, fn, rid, p) ==
    FlushStep([pcs EXCEPT ![p].flushes = @ + 1], pend, cur, fn, rid, <<>>, TRUE, 1)

\* --------------------------------------------------------- signaling events
Delivering == \E s \in Ids : sc[s].st = "open"


\* createAndSendOffer, lines 292-297, up to its first await.
CreateAndSendOffer(pcs) ==
    IF role # "VIEWER" \/ peerConnection = 0 \/ signalingClient = 0
      THEN pcs
      ELSE Call(pcs, peerConnection, Op("createOffer", "open", NoDesc, NoCand, 0, <<>>, FALSE, 0))

\* Mutant of OnOpen: the offer routine is started twice for one open report.
OnOpen_twice(pcs) ==
    IF role = "VIEWER" THEN CreateAndSendOffer(CreateAndSendOffer(pcs)) ELSE pcs

\* 'open' handler, lines 210-219.
OnOpen(pcs) == IF role = "VIEWER" THEN CreateAndSendOffer(pcs) ELSE pcs

\* waitForConnection's 'open' handler, lines 316-319: resolve() settles the promise
\* connect() awaits, unless it is settled already.
Resolve(c) == IF c.st = "wait" THEN [c EXCEPT !.st = "resolved"] ELSE c

\* The signaling client s reports open: the engine's handler runs, then the one
\* waitForConnection registered (lines 316-319), which clears the timer and
\* resolves connect().
SigOpen(s) ==
    /\ sc[s].st = "connecting"
    /\ sc' = [sc EXCEPT ![s].st = "open", ![s].opened = TRUE]
    /\ pc' = OnOpen(pc)
    /\ conn' = [conn EXCEPT ![s] = Resolve(ClearTimeout(@))]
    /\ UNCHANGED <<ctorRole, relays, limit, role, localStream, peerConnection, signalingClient,
                   pendingICECandidates, stopped, errors, observers, media, states,
                   nConnects, nCands, nSdp, delivered, nFaults>>

\* The signaling client s reports an error: the engine's handler (lines 280-285)
\* reports it, then the one waitForConnection registered (lines 321-324) clears the
\* timer and rejects a connect() still waiting, whose catch reports it again.
SigError(s) ==
    /\ sc[s].st \in {"connecting", "open"}
    /\ Fault(FALSE)
    /\ sc' = [sc EXCEPT ![s].st = "failed"]
    /\ conn' = (IF conn[s].st = "wait"
                  THEN [Reject(s, "signaling") EXCEPT ![s] = ClearTimeout(@)]
                  ELSE [conn EXCEPT ![s] = ClearTimeout(@)])
    /\ errors' = (IF conn[s].st = "wait"
                    THEN Report(Report(errors, "signaling"), "signaling")
                    ELSE Report(errors, "signaling"))
    /\ UNCHANGED <<ctorRole, relays, limit, role, localStream, peerConnection, signalingClient,
                   pendingICECandidates, pc, stopped, observers, media, states,
                   nConnects, nCands, nSdp, delivered>>

\* 'sdpOffer' handler, lines 221-227, up to its first await.
OnSdpOffer(pcs, offer) ==
    IF role = "MASTER" /\ peerConnection # 0
      THEN Call(pcs, peerConnection, Op("setRD", "offer", offer, NoCand, offer.rid, <<>>, FALSE, 0))
      ELSE pcs

\* The signaling channel delivers an offer from remote id r.  Remote ids are
\* opaque: the sender of the first offer is called R1.
SdpOffer(r, ok) ==
    /\ Delivering
    /\ nSdp < limit.sdp
    /\ r <= nSdp + 1
    /\ Fault(ok)
    /\ nSdp' = nSdp + 1
    /\ delivered' = Append(delivered, "offer")
    /\ pc' = OnSdpOffer(pc, RemoteDesc("offer", r, nSdp + 1, ok))
    /\ UNCHANGED <<ctorRole, relays, limit, role, localStream, peerConnection, signalingClient,
                   pendingICECandidates, conn, sc, stopped, errors, observers, media, states,
                   nConnects, nCands>>

\* Mutant of OnSdpAnswer: the role test of line 248 is missing.
OnSdpAnswer_anyrole(pcs, answer) ==
    IF peerConnection # 0
      THEN Call(pcs, peerConnection, Op("setRD", "answer", answer, NoCand, 0, <<>>, FALSE, 0))
      ELSE pcs

\* 'sdpAnswer' handler, lines 244-250, up to its first await.
OnSdpAnswer(pcs, answer) ==
    IF role = "VIEWER" /\ peerConnection # 0
      THEN Call(pcs, peerConnection, Op("setRD", "answer", answer, NoCand, 0, <<>>, FALSE, 0))
      ELSE pcs

\* The signaling channel delivers an answer (from the master: no sender id).
SdpAnswer(ok) ==
    /\ Delivering
    /\ nSdp < limit.sdp
    /\ Fault(ok)
    /\ nSdp' = nSdp + 1
    /\ delivered' = Append(delivered, "answer")
    /\ pc' = OnSdpAnswer(pc, RemoteDesc("answer", 0, nSdp + 1, ok))
    /\ UNCHANGED <<ctorRole, relays, limit, role, localStream, peerConnection, signalingClient,
                   pendingICECandidates, conn, sc, stopped, errors, observers, media, states,
                   nConnects, nCands>>

\* 'iceCandidate' handler, lines 264-278: buffer the candidate while there is no
\* remote description, else apply it.
OnIceCandidate(pcs, pend, c) ==
    IF peerConnection = 0
      THEN [pcs |-> pcs, pend |-> pend]
      ELSE IF ~HasRemoteDescription(pcs[peerConnection])
        THEN [pcs |-> pcs, pend |-> Append(pend, c)]
        ELSE [pcs |-> CallAdd(pcs, peerConnection,
                              Op("addIce", "cand", NoDesc, c, 0, <<>>, FALSE, 0)),
              pend |-> pend]

IceCandidate(ok) ==
    /\ Delivering
    /\ nCands < limit.cands
    /\ Fault(ok)
    /\ nCands' = nCands + 1
    /\ LET r == OnIceCandidate(pc, pendingICECandidates, [id |-> nCands + 1, ok |-> ok]) IN
       /\ pc' = r.pcs
       /\ pendingICECandidates' = r.pend
    /\ UNCHANGED <<ctorRole, relays, limit, role, localStream, peerConnection, signalingClient,
                   conn, sc, stopped, errors, observers, media, states, nConnects, nSdp, delivered>>

\* ----------------------------------------------- events of the peer connection
\* ontrack, lines 130-139: the peer connection p delivers an inbound track.  The
\* aggregate is created if there is none, the track added to it, and the observer,
\* when one is registered, called with the aggregate.
OnTrack(track) ==
    LET fresh == remoteStream = 0
        agg   == IF fresh THEN Len(streams) + 1 ELSE remoteStream
        strs  == IF fresh THEN Append(streams, <<>>) ELSE streams
        strs2 == [strs EXCEPT ![agg] = IF track \in GetTracks(@) THEN @ ELSE Append(@, track)]
    IN /\ remoteStream' = agg
       /\ streams' = strs2
       /\ remoteSeen' = IF onRemoteStreamCallback = 0 THEN remoteSeen
                        ELSE Append(remoteSeen, [cb |-> onRemoteStreamCallback, agg |-> agg,
                                                 tracks |-> strs2[agg]])

\* Inbound tracks are delivered while the remote description is applied.
Track(p) ==
    /\ pc[p].st = "open"
    /\ HasRemoteDescription(pc[p])
    /\ nTracks < limit.tracks
    /\ nTracks' = nTracks + 1
    /\ OnTrack(RemoteTrack(p, nTracks + 1))
    /\ UNCHANGED <<ctorRole, relays, limit, role, localStream, peerConnection, signalingClient,
                   pendingICECandidates, conn, pc, sc, stopped, errors, observers, states,
                   nConnects, nCands, nSdp, delivered, nFaults>>

\* onconnectionstatechange, lines 142-149: while a peer connection is referenced,
\* the observer, when one is registered, is called with the connection state of the
\* peer connection this.peerConnection refers to.
OnConnectionStateChangeEvent(pcs, seen) ==
    IF peerConnection # 0 /\ onConnectionStateChangeCallback # 0
      THEN Append(seen, [cb |-> onConnectionStateChangeCallback, s |-> pcs[peerConnection].cs])
      ELSE seen

\* The peer connection p, once it has both descriptions, reports a change of its
\* connection state to s.
ConnectionStateChange(p, s) ==
    /\ pc[p].st = "open"
    /\ pc[p].local # NoDesc /\ HasRemoteDescription(pc[p])
    /\ nStates < limit.states
    /\ s \in NextStates(pc[p].cs)
    /\ Fault(s \notin {"failed", "disconnected"})
    /\ nStates' = nStates + 1
    /\ pc' = [pc EXCEPT ![p].cs = s]
    /\ reports' = Append(reports, [pc |-> p, s |-> s])
    /\ stateSeen' = OnConnectionStateChangeEvent(pc', stateSeen)
    /\ UNCHANGED <<ctorRole, relays, limit, role, localStream, peerConnection, signalingClient,
                   pendingICECandidates, conn, sc, stopped, errors, observers, media,
                   nConnects, nCands, nSdp, delivered>>

\* onicecandidate, lines 159-164: a gathered candidate is sent through the signaling
\* client the engine refers to, with no recipient id; the event that ends gathering
\* carries no candidate and is ignored.  sendIceCandidate throws unless the client is
\* open, and nothing catches it in an event handler: the candidate is lost.
OnIceCandidateEvent(scs, p, candidate) ==
    IF candidate /\ signalingClient # 0 /\ CanSend(scs[signalingClient])
      THEN Send(scs, signalingClient, "candidate", 0, p)
      ELSE scs

\* The peer connection p, which gathers candidates once it has a local description,
\* reports a local ICE candidate (candidate = TRUE) or the end of gathering.
LocalCandidate(p, candidate) ==
    /\ pc[p].st = "open"
    /\ pc[p].local # NoDesc
    /\ ~pc[p].complete
    /\ candidate => pc[p].gathered < limit.local
    /\ limit.local > 0
    /\ pc' = [pc EXCEPT ![p].gathered = IF candidate THEN @ + 1 ELSE @,
                        ![p].complete = ~candidate]
    /\ sc' = OnIceCandidateEvent(sc, p, candidate)
    /\ UNCHANGED <<ctorRole, relays, limit, role, localStream, peerConnection, signalingClient,
                   pendingICECandidates, conn, stopped, errors, observers, media, states,
                   nConnects, nCands, nSdp, delivered, nFaults>>

\* ------------------------------------- completions of peer-connection operations
\* The operation at the head of p's operations chain settles.
Settles(p, op) == pc[p].st = "open" /\ pc[p].chain # <<>> /\ Head(pc[p].chain).op = op

\* createOffer resolves (line 297); createAndSendOffer goes on to line 301, where an
\* undefined this.peerConnection throws into its catch (lines 304-308).
CreateOfferDone(p) ==
    /\ Settles(p, "createOffer")
    /\ LET o == Head(pc[p].chain)
           pcs1 == Pop(pc, p)
       IN /\ pc' = IF peerConnection = 0
                     THEN pcs1
                     ELSE Call(pcs1, peerConnection,
                               [o EXCEPT !.op = "setLD", !.desc = LocalDesc("offer", p)])
          /\ errors' = IF peerConnection = 0 THEN Report(errors, "negotiation") ELSE errors
    /\ UNCHANGED <<ctorRole, relays, limit, role, localStream, peerConnection, signalingClient,
                   pendingICECandidates, conn, sc, stopped, observers, media, states,
                   nConnects, nCands, nSdp, delivered, nFaults>>

\* createAnswer settles (line 228); the sdpOffer handler goes on to line 229.
CreateAnswerDone(p) ==
    /\ Settles(p, "createAnswer")
    /\ LET o == Head(pc[p].chain)
           pcs1 == Pop(pc, p)
       IN pc' = IF CanCreateAnswer(pc[p]) /\ peerConnection # 0
                  THEN Call(pcs1, peerConnection,
                            [o EXCEPT !.op = "setLD", !.desc = LocalDesc("answer", p)])
                  ELSE pcs1
    /\ UNCHANGED <<ctorRole, relays, limit, role, localStream, peerConnection, signalingClient,
                   pendingICECandidates, conn, sc, stopped, errors, observers, media, states,
                   nConnects, nCands, nSdp, delivered, nFaults>>

\* setRemoteDescription settles.  The sdpOffer handler goes on to createAnswer
\* (line 228); the sdpAnswer handler goes on to the flush loop (line 254).
SetRemoteDescriptionDone(p) ==
    /\ Settles(p, "setRD")
    /\ LET o == Head(pc[p].chain)
           pcs1 == Pop(pc, p)
           pcs2 == [pcs1 EXCEPT ![p] = AfterSetRemote(@, o.desc)]
           r == IF ~CanSetRemote(pc[p], o.desc)
                  THEN [pcs |-> pcs1, pend |-> pendingICECandidates]
                  ELSE IF o.fn = "offer"
                    THEN [pcs |-> IF peerConnection = 0 THEN pcs2
                                  ELSE Call(pcs2, peerConnection, [o EXCEPT !.op = "createAnswer"]),
                          pend |-> pendingICECandidates]
                    ELSE FlushStart(pcs2, pendingICECandidates, peerConnection, o.fn, o.rid, p)
       IN /\ pc' = r.pcs
          /\ pendingICECandidates' = r.pend
    /\ UNCHANGED <<ctorRole, relays, limit, role, localStream, peerConnection, signalingClient,
                   conn, sc, stopped, errors, observers, media, states,
                   nConnects, nCands, nSdp, delivered, nFaults>>

\* Mutant of SetLocalDescriptionDone: the sdpOffer handler enters the flush loop
\* before it sends the answer, so the loop runs also when the send throws.
SetLocalDescriptionDone_flushfirst(p) ==
    /\ Settles(p, "setLD")
    /\ LET o == Head(pc[p].chain)
           pcs1 == Pop(pc, p)
           pcs2 == [pcs1 EXCEPT ![p] = AfterSetLocal(@, o.desc)]
           same == [pcs |-> pcs1, pend |-> pendingICECandidates, scs |-> sc]
           sends == signalingClient # 0 /\ CanSend(sc[signalingClient])
           r == IF ~CanSetLocal(pc[p], p, o.desc)
                  THEN same
                  ELSE IF o.fn = "offer"
                    THEN FlushStart(pcs2, pendingICECandidates, peerConnection, o.fn, o.rid, p)
                           @@ [scs |-> IF sends
                                         THEN Send(sc, signalingClient, "answer", o.rid, p)
                                         ELSE sc]
                    ELSE [same EXCEPT !.pcs = pcs2,
                                      !.scs = IF sends
                                                THEN Send(sc, signalingClient, "offer", 0, p)
                                                ELSE sc]
       IN /\ pc' = r.pcs
          /\ pendingICECandidates' = r.pend
          /\ sc' = r.scs
          /\ errors' = IF o.fn = "open" /\ ~(CanSetLocal(pc[p], p, o.desc) /\ sends)
                         THEN Report(errors, "negotiation")
                         ELSE errors
    /\ UNCHANGED <<ctorRole, relays, limit, role, localStream, peerConnection, signalingClient,
                   conn, stopped, observers, media, states, nConnects, nCands, nSdp, delivered,
                   nFaults>>

\* setLocalDescription settles.  The sdpOffer handler sends the answer to the
\* offer's sender and enters the flush loop (lines 230-234); createAndSendOffer
\* sends the offer (line 302), and whatever is thrown there goes to its catch
\* (lines 304-308).
SetLocalDescriptionDone(p) ==
    /\ Settles(p, "setLD")
    /\ LET o == Head(pc[p].chain)
           pcs1 == Pop(pc, p)
           pcs2 == [pcs1 EXCEPT ![p] = AfterSetLocal(@, o.desc)]
           same == [pcs |-> pcs1, pend |-> pendingICECandidates, scs |-> sc]
           sends == signalingClient # 0 /\ CanSend(sc[signalingClient])
           r == IF ~CanSetLocal(pc[p], p, o.desc)
                  THEN same
                  ELSE IF o.fn = "offer"
                    THEN IF signalingClient = 0
                           THEN FlushStart(pcs2, pendingICECandidates, peerConnection, o.fn, o.rid, p)
                                  @@ [scs |-> sc]
                           ELSE IF ~CanSend(sc[signalingClient])
                             THEN [same EXCEPT !.pcs = pcs2]
                             ELSE FlushStart(pcs2, pendingICECandidates, peerConnection, o.fn, o.rid, p)
                                    @@ [scs |-> Send(sc, signalingClient, "answer", o.rid, p)]
                    ELSE [same EXCEPT !.pcs = pcs2,
                                      !.scs = IF sends
                                                THEN Send(sc, signalingClient, "offer", 0, p)
                                                ELSE sc]
       IN /\ pc' = r.pcs
          /\ pendingICECandidates' = r.pend
          /\ sc' = r.scs
          /\ errors' = IF o.fn = "open" /\ ~(CanSetLocal(pc[p], p, o.desc) /\ sends)
                         THEN Report(errors, "negotiation")
                         ELSE errors
    /\ UNCHANGED <<ctorRole, relays, limit, role, localStream, peerConnection, signalingClient,
                   conn, stopped, observers, media, states, nConnects, nCands, nSdp, delivered, nFaults>>

\* addIceCandidate settles.  A flush loop goes on to its next turn; the
\* iceCandidate handler has nothing left to do (lines 271-275).
AddIceCandidateDone(p) ==
    /\ Settles(p, "addIce")
    /\ LET o == Head(pc[p].chain)
           pcs1 == Pop(pc, p)
           pcs2 == [pcs1 EXCEPT ![p].applied = Append(@, o.cand.id)]
           r == IF ~CanAddIce(pc[p], o.cand)
                  THEN [pcs |-> pcs1, pend |-> pendingICECandidates]
                  ELSE IF o.fn = "cand"
                    THEN [pcs |-> pcs2, pend |-> pendingICECandidates]
                    ELSE FlushStep(pcs2, pendingICECandidates, peerConnection,
                                   o.fn, o.rid, o.arr, o.live, o.idx)
       IN /\ pc' = r.pcs
          /\ pendingICECandidates' = r.pend
    /\ UNCHANGED <<ctorRole, relays, limit, role, localStream, peerConnection, signalingClient,
                   conn, sc, stopped, errors, observers, media, states,
                   nConnects, nCands, nSdp, delivered, nFaults>>

Next ==
    \/ \E cb \in Callbacks : OnRemoteStream(cb)
    \/ \E cb \in Callbacks : OnConnectionStateChange(cb)
    \/ \E cb \in Callbacks : OnError(cb)
    \/ \E stream \in BOOLEAN : Connect(stream)
    \/ \E t \in Ids, res \in {"ok", "noarn", "throw"} : DescribeDone(t, res)
    \/ \E t \in Ids, res \in {"ok", "nolist", "throw"} : EndpointDone(t, res)
    \/ \E t \in Ids, res \in {"ok", "throw"} : IceDone(t, res)
    \/ \E t \in Ids : Timeout(t)
    \/ Disconnect
    \/ \E s \in Ids : SigOpen(s)
    \/ \E s \in Ids : SigError(s)
    \/ \E r \in RemoteIds, ok \in Ok : SdpOffer(r, ok)
    \/ \E ok \in Ok : SdpAnswer(ok)
    \/ \E ok \in Ok : IceCandidate(ok)
    \/ \E p \in Ids : Track(p)
    \/ \E p \in Ids, s \in {"connecting", "connected", "disconnected", "failed"} :
          ConnectionStateChange(p, s)
    \/ \E p \in Ids, candidate \in BOOLEAN : LocalCandidate(p, candidate)
    \/ \E p \in Ids : CreateOfferDone(p)
    \/ \E p \in Ids : CreateAnswerDone(p)
    \/ \E p \in Ids : SetRemoteDescriptionDone(p)
    \/ \E p \in Ids : SetLocalDescriptionDone(p)
    \/ \E p \in Ids : AddIceCandidateDone(p)

Spec == Init /\ [][Next]_vars

\* ------------------------------------------------------------ properties
SentOf(s, kind) == {i \in DOMAIN sc[s].sent : sc[s].sent[i].kind = kind}
NumSent(s, kind) == Cardinality(SentOf(s, kind))

RECURSIVE SumSent(_, _)
SumSent(S, kind) ==
    IF S = {} THEN 0
    ELSE LET s == CHOOSE x \in S : TRUE IN NumSent(s, kind) + SumSent(S \ {s}, kind)

\* The functions suspended on peer connection p that run fn.
Suspended(p, fn) == {i \in DOMAIN pc[p].chain : pc[p].chain[i].fn = fn}

CandIds(q) == [i \in DOMAIN q |-> q[i].id]
Increasing(q) == \A i, j \in DOMAIN q : i < j => q[i] < q[j]

\* The elements of r that are elements of q, in r's order.
Restrict(r, q) == SelectSeq(r, LAMBDA x : \E i \in DOMAIN q : q[i] = x)

\* The signaling channels that have reported open.
OpenReports == {s \in Ids : sc[s].opened}

\* The answers sent for transport session p: <<channel, position in its log>>.
AnswersFor(p) ==
    UNION {{<<s, i>> : i \in {j \in DOMAIN sc[s].sent :
                                sc[s].sent[j].kind = "answer" /\ sc[s].sent[j].src = p}}
           : s \in Ids}

\* C1: the Pending Candidate Buffer holds the candidates received before the remote
\* description in arrival order; once the remote description is available (and no
\* offer or answer handler is still running) every buffered candidate has been
\* applied to the transport in that order and the buffer is empty; the flush
\* happens at most once per transport session.
C1_Step ==
    /\ Increasing(CandIds(pendingICECandidates'))
    /\ \A p \in Ids : pc'[p].flushes <= 1
    /\ (pendingICECandidates # <<>> /\ pendingICECandidates' = <<>>) =>
          \E p \in Ids : Restrict(pc'[p].applied, CandIds(pendingICECandidates))
                            = CandIds(pendingICECandidates)
    /\ (/\ peerConnection' # 0
        /\ HasRemoteDescription(pc'[peerConnection'])
        /\ \A p \in Ids : /\ Suspended(p, "offer")' = {}
                          /\ Suspended(p, "answer")' = {})
          => pendingICECandidates' = <<>>

C1_BufferFlushedOnceInOrder == [][C1_Step]_vars

\* C2: every addIceCandidate call the engine makes is made on a transport session
\* whose remote description is set (a candidate that arrives while there is none
\* is buffered instead).
C2_NoCandidateBeforeRemoteDescription ==
    \A p \in Ids : \A i \in DOMAIN pc[p].calls : pc[p].calls[i].rd

\* C3: an engine constructed with role MASTER never sends an SDP offer over any
\* signaling channel.
C3_MasterNeverSendsOffer ==
    ctorRole = "MASTER" => \A s \in Ids : NumSent(s, "offer") = 0

\* A master whose signaling channel opened and which answered an offer.
C3_Witness ==
    /\ ctorRole = "MASTER"
    /\ \E s \in Ids : sc[s].opened /\ NumSent(s, "answer") > 0

C5_Step ==
    (nConnects' = nConnects + 1 /\ \E u \in Ids : InFlight(u)) =>
        /\ conn'[nConnects'].st = "rejected"
        /\ conn'[nConnects'].err = "AlreadyConnectingError"
        /\ localStream' = localStream

C5_SecondConnectRejected == [][C5_Step]_vars

\* C6: at most one transport session and at most one signaling channel that have
\* been created and not yet closed exist at any time.
C6_AtMostOneSession ==
    /\ Cardinality({p \in Ids : pc[p].st = "open"}) <= 1
    /\ Cardinality({s \in Ids : sc[s].st \in {"connecting", "open"}}) <= 1

\* C7: a connect() that was suspended when disconnect() was called discards its
\* result: from then on it creates no transport session, creates or opens no
\* signaling channel, and no offer is sent for it.
C7_Step ==
    \A t \in Ids : conn[t].cancelled =>
        /\ pc[t].st = "none" => pc'[t].st = "none"
        /\ sc[t].st = "none" => sc'[t].st = "none"
        /\ ~sc[t].opened => ~sc'[t].opened
        /\ \A s \in Ids : \A i \in DOMAIN sc'[s].sent :
              (sc'[s].sent[i].kind = "offer" /\ sc'[s].sent[i].src = t)
                 => i \in DOMAIN sc[s].sent

C7_CancelledConnectDiscards == [][C7_Step]_vars

\* C8: when the relay-credential request fails, connect() goes on: the transport
\* session is created with an empty relay list and the signaling channel is opened.
C8_Step ==
    \A t \in Ids : IceDone(t, "throw") =>
        /\ conn'[t].st = "wait"
        /\ pc'[t].st = "open"
        /\ pc'[t].ice = 0
        /\ sc'[t].st = "connecting"

C8_CredentialFailureNotFatal == [][C8_Step]_vars

\* C9: a connect() whose Channel Resolver response carries no channel identifier is
\* rejected with the resolution error, and creates neither a transport session nor
\* a signaling channel.
C9_NoArnFailsBeforeSignaling ==
    \A t \in Ids : conn[t].arn = "missing" =>
        /\ conn[t].st = "rejected"
        /\ conn[t].err = "resolution"
        /\ pc[t].st = "none"
        /\ sc[t].st = "none"

\* A connect() that was rejected because the response carried no ChannelARN.
C9_Witness ==
    \E t \in Ids : conn[t].arn = "missing" /\ conn[t].st = "rejected"

\* C10: a MASTER negotiating with R1 ignores a further offer: a transport session
\* answers at most one offer, and its remote description stays the offer it answered.
C10_SecondOfferIgnored ==
    role = "MASTER" =>
        \A p \in Ids :
            /\ Cardinality(AnswersFor(p)) <= 1
            /\ \A m \in AnswersFor(p) : pc[p].remote.rid = sc[m[1]].sent[m[2]].rid

\* A transport session / signaling channel that exists and has not been closed.
LivePc(P) == P.st = "open"
LiveSc(S) == S.st \in {"connecting", "open"}

\* The connect() call t is rejected in this step.
Fails(t) == conn[t].st # "rejected" /\ conn'[t].st = "rejected"

\* C11: when a connect() fails (resolution failure, missing endpoints, signaling
\* error before open, signaling timeout), the engine tears down by itself: after
\* the failing step the transport session and the signaling channel of that attempt
\* are not left open, and the Pending Candidate Buffer is empty.
C11_Step ==
    \A t \in Ids : Fails(t) =>
        /\ ~LivePc(pc'[t])
        /\ ~LiveSc(sc'[t])
        /\ pendingICECandidates' = <<>>

C11_FatalPathTearsDown == [][C11_Step]_vars

\* C12: every transport session and signaling channel the engine creates is
\* released exactly once: close() is never called twice on one, and after a failed
\* connect() its resources, and after disconnect() all resources, have been closed
\* once.
C12_Step ==
    /\ \A p \in Ids : pc'[p].closes <= 1 /\ sc'[p].closes <= 1
    /\ \A t \in Ids : Fails(t) =>
          /\ pc'[t].st # "none" => pc'[t].closes = 1
          /\ sc'[t].st # "none" => sc'[t].closes = 1
    /\ Disconnect =>
          \A p \in Ids : /\ pc'[p].st # "none" => pc'[p].closes = 1
                         /\ sc'[p].st # "none" => sc'[p].closes = 1

C12_ReleasedExactlyOnce == [][C12_Step]_vars

\* C13: the signaling timeout is measured from the start of connect(): the timer
\* runs for as long as connect() is in flight, it is not running once connect() has
\* settled, and when it fires connect() is rejected with the timeout error.
C13_TimeoutFromStartOfConnect ==
    \A t \in Ids :
        /\ InFlight(t) => conn[t].timer = "armed"
        /\ conn[t].st \in {"resolved", "rejected"} => conn[t].timer # "armed"
        /\ conn[t].timer = "fired" => (conn[t].st = "rejected" /\ conn[t].err = "timeout")

\* Nothing is referenced by the engine: the state construction and disconnect() leave.
Released ==
    /\ localStream = 0
    /\ remoteStream = 0
    /\ peerConnection = 0
    /\ signalingClient = 0

\* C14: disconnect() is idempotent.  Every disconnect() leaves the four references
\* undefined and has closed no resource a second time; a disconnect() that finds
\* them undefined (before any connect() created anything, or right after another
\* disconnect()) closes nothing, stops nothing, calls no observer and changes no
\* field of the engine.
C14_Step ==
    Disconnect =>
        /\ Released'
        /\ \A p \in Ids : pc'[p].closes <= 1 /\ sc'[p].closes <= 1
        /\ Released => UNCHANGED <<pc, sc, streams, stopped, pendingICECandidates, observers,
                                   remoteSeen, stateSeen, errors, reports, role>>

C14_DisconnectIdempotent == [][C14_Step]_vars

\* disconnect() has released a session and its channel, each closed once, and left
\* nothing referenced: the state in which a repeated disconnect() runs, and which
\* it leaves as it is.
C14_Witness ==
    /\ Released
    /\ \E p \in Ids : pc[p].closes = 1 /\ sc[p].closes = 1

\* C15: after disconnect() the outbound tracks are stopped and released, the inbound
\* tracks are stopped, the transport session and the signaling channel are closed
\* and dereferenced, and the Pending Candidate Buffer is empty.
C15_Step ==
    Disconnect =>
        /\ localStream # 0 => LocalTrack(localStream) \in stopped'
        /\ remoteStream # 0 => GetTracks(streams[remoteStream]) \subseteq stopped'
        /\ peerConnection # 0 => pc'[peerConnection].st = "closed"
        /\ signalingClient # 0 => sc'[signalingClient].st = "closed"
        /\ Released'
        /\ pendingICECandidates' = <<>>

C15_DisconnectReleasesAll == [][C15_Step]_vars

\* C16: when a transport session reports connection state failed or disconnected,
\* the engine treats it as fatal in the same step: a registered error observer is
\* called, the session and its signaling channel are closed, and no new connect()
\* is started.
C16_Step ==
    \A p \in Ids :
        (pc'[p].cs # pc[p].cs /\ pc'[p].cs \in {"failed", "disconnected"}) =>
            /\ onErrorCallback # 0 => Len(errors') = Len(errors) + 1
            /\ ~LivePc(pc'[p])
            /\ ~LiveSc(sc'[p])
            /\ nConnects' = nConnects

C16_TransportFailureIsFatal == [][C16_Step]_vars

\* C17: every connection-state change of a transport session, the change to closed
\* made by disconnect() included, is passed to the registered connection-state
\* observer, with the value the transport reported and in the order it reported
\* them; the observer is called for nothing else.
C17_Step ==
    IF reports' = reports
      THEN stateSeen' = stateSeen
      ELSE onConnectionStateChangeCallback # 0 =>
              stateSeen' = Append(stateSeen, [cb |-> onConnectionStateChangeCallback,
                                              s  |-> reports'[Len(reports')].s])

C17_StateForwardedVerbatim == [][C17_Step]_vars

\* C18: the engine never stops a track of a stream the caller gave to connect().
C18_CallerTracksNeverStopped ==
    \A t \in Ids : LocalTrack(t) \notin stopped

\* The engine is not IDLE: a connect() has completed or failed, or disconnect() was
\* called on an attempt.
NotIdle == \E u \in Ids : conn[u].st \in {"resolved", "rejected"} \/ conn[u].cancelled

\* C19: a connect() called on an engine that is not IDLE starts no resolution (and
\* so creates no transport session and no signaling channel).
C19_Step ==
    (nConnects' = nConnects + 1 /\ NotIdle) => conn'[nConnects'].st # "describe"

C19_ConnectOnlyFromIdle == [][C19_Step]_vars

\* C20: the inbound tracks of one connection attempt are accumulated into one
\* aggregate of their own: an aggregate holds the tracks of a single transport
\* session, in arrival order; a transport session's tracks are in a single
\* aggregate; and each call of the remote-media observer carries the aggregate with
\* the tracks that had arrived up to that call, at most one call per arrival.
C20_OneAggregatePerAttempt ==
    /\ \A a \in DOMAIN streams : \A i, j \in DOMAIN streams[a] :
          /\ streams[a][i].pc = streams[a][j].pc
          /\ i < j => streams[a][i].n < streams[a][j].n
    /\ \A a, b \in DOMAIN streams :
          (a # b /\ streams[a] # <<>> /\ streams[b] # <<>>) => streams[a][1].pc # streams[b][1].pc
    /\ Len(remoteSeen) <= nTracks
    /\ \A i \in DOMAIN remoteSeen :
          /\ remoteSeen[i].agg \in DOMAIN streams
          /\ remoteSeen[i].tracks # <<>>
          /\ remoteSeen[i].tracks = SubSeq(streams[remoteSeen[i].agg], 1, Len(remoteSeen[i].tracks))

\* The calls a step appends to an observer's log.
Added(old, new) == {new[i] : i \in (Len(old) + 1) .. Len(new)}

\* C21: each observer slot holds one handler.  Registering a handler for an event
\* stores it in that event's slot, replacing the one registered before, and leaves
\* the other two slots as they are; every call of an observer goes to the handler
\* its slot holds at that time.
C21_Step ==
    /\ \A cb \in Callbacks :
          /\ OnRemoteStream(cb) =>
                /\ onRemoteStreamCallback' = cb
                /\ UNCHANGED <<onConnectionStateChangeCallback, onErrorCallback>>
          /\ OnConnectionStateChange(cb) =>
                /\ onConnectionStateChangeCallback' = cb
                /\ UNCHANGED <<onRemoteStreamCallback, onErrorCallback>>
          /\ OnError(cb) =>
                /\ onErrorCallback' = cb
                /\ UNCHANGED <<onRemoteStreamCallback, onConnectionStateChangeCallback>>
    /\ \A e \in Added(remoteSeen, remoteSeen') : e.cb = onRemoteStreamCallback
    /\ \A e \in Added(stateSeen, stateSeen') : e.cb = onConnectionStateChangeCallback
    /\ \A e \in Added(errors, errors') : e.cb = onErrorCallback

C21_LatestHandlerOnly == [][C21_Step]_vars

\* A second handler was registered for connection-state changes after the first had
\* been called, and the later change went to the second, with the other two slots
\* still holding what was registered in them.
C21_Witness ==
    /\ onRemoteStreamCallback # 0
    /\ onErrorCallback # 0
    /\ \E i, j \in DOMAIN stateSeen :
          /\ i < j
          /\ stateSeen[i].cb # stateSeen[j].cb
          /\ stateSeen[j].cb = onConnectionStateChangeCallback

\* The answers sent so far to remote id r.
AnswersTo(scs, r) ==
    UNION { { <<s, i>> : i \in {k \in DOMAIN scs[s].sent :
                                  scs[s].sent[k].kind = "answer" /\ scs[s].sent[k].rid = r} }
            : s \in Ids }

\* C22: the sdpOffer handler of a MASTER, handling an offer from remote id R, sets
\* the offer as remote description, creates the answer, sets it as local
\* description, sends the answer addressed to R, and only then applies the buffered
\* candidates and clears the buffer:
\*  - createAnswer is called only once a remote offer is set;
\*  - an answer is sent only in the step in which setLocalDescription settles for
\*    the handler of an offer from R, it is addressed to R, and the session then has
\*    a remote offer and the answer it created as local description;
\*  - the flush loop of the handler calls addIceCandidate, and the buffer is
\*    emptied, only after an answer to R has been sent.
C22_Step ==
    /\ \A q \in Ids : \A i \in DOMAIN pc'[q].chain :
          LET o == pc'[q].chain[i] IN
          o.fn = "offer" =>
             /\ o.op \in {"createAnswer", "setLD", "addIce"} =>
                   \E p \in Ids : pc'[p].remote.type = "offer"
             /\ o.op = "setLD" => o.desc.type = "answer"
             /\ o.op = "addIce" => AnswersTo(sc', o.rid) # {}
    /\ \A s \in Ids : \A e \in Added(sc[s].sent, sc'[s].sent) :
          e.kind = "answer" =>
             /\ role = "MASTER"
             /\ SetLocalDescriptionDone(e.src)
             /\ Head(pc[e.src].chain).fn = "offer"
             /\ Head(pc[e.src].chain).rid = e.rid
             /\ pc'[e.src].remote.type = "offer"
             /\ pc'[e.src].local = LocalDesc("answer", e.src)
    /\ (role = "MASTER" /\ pendingICECandidates # <<>> /\ pendingICECandidates' = <<>>) =>
          \E r \in RemoteIds : AnswersTo(sc', r) # {}

C22_OfferHandledInOrder == [][C22_Step]_vars

\* The handler of an offer from R has sent its answer to R and is now applying a
\* buffered candidate.
C22_Witness ==
    \E p \in Ids : \E i \in DOMAIN pc[p].chain :
        /\ pc[p].chain[i].fn = "offer"
        /\ pc[p].chain[i].op = "addIce"
        /\ \E s \in Ids : \E k \in DOMAIN sc[s].sent :
              sc[s].sent[k] = [kind |-> "answer", rid |-> pc[p].chain[i].rid, src |-> p]
        /\ pc[p].remote.rid = pc[p].chain[i].rid

\* The engine state of the design, read off the latest connect() call: RESOLVING
\* while the channel and the relay credentials are looked up, NEGOTIATING from the
\* creation of the transport session, CONNECTED once the transport reports
\* connected, CLOSED after disconnect(), FAILED when connect() was rejected.
EngineState(conns, pcs, n) ==
    IF n = 0 THEN "IDLE"
    ELSE IF conns[n].st = "rejected" THEN "FAILED"
    ELSE IF conns[n].cancelled \/ pcs[n].st = "closed" THEN "CLOSED"
    ELSE IF conns[n].st \in {"describe", "endpoint", "ice"} THEN "RESOLVING"
    ELSE IF pcs[n].cs = "connected" THEN "CONNECTED"
    ELSE "NEGOTIATING"

StateRank(s) ==
    CASE s = "IDLE" -> 0 [] s = "RESOLVING" -> 1 [] s = "NEGOTIATING" -> 2
      [] s = "CONNECTED" -> 3 [] s = "CLOSED" -> 4 [] OTHER -> 5

\* C23: a VIEWER that receives an answer sets it as the remote description, then
\* applies every buffered candidate in arrival order and clears the buffer: once
\* the session the engine refers to has the answer as remote description and no
\* sdpAnswer handler is still running, the buffer is empty, and the step that
\* empties it finds every buffered candidate applied to that session, in order.
\* In a run without failures and with one connect(), the engine state only moves
\* forward through IDLE, RESOLVING, NEGOTIATING, CONNECTED and is never FAILED.
C23_Step ==
    role = "VIEWER" =>
        /\ (/\ peerConnection' # 0
            /\ pc'[peerConnection'].remote.type = "answer"
            /\ \A p \in Ids : Suspended(p, "answer")' = {})
              => pendingICECandidates' = <<>>
        /\ (pendingICECandidates # <<>> /\ pendingICECandidates' = <<>>) =>
              /\ peerConnection # 0
              /\ Restrict(pc'[peerConnection].applied, CandIds(pendingICECandidates))
                    = CandIds(pendingICECandidates)
        /\ (nFaults' = 0 /\ nConnects' <= 1) =>
              /\ EngineState(conn', pc', nConnects') # "FAILED"
              /\ StateRank(EngineState(conn', pc', nConnects'))
                    >= StateRank(EngineState(conn, pc, nConnects))

C23_AnswerFlushesBuffer == [][C23_Step]_vars

NoDuplicates(q) == \A i, j \in DOMAIN q : q[i] = q[j] => i = j

\* C24: the Pending Candidate Buffer is never partially drained and never retained
\* after a flush: when no sdpOffer or sdpAnswer handler is running, the buffer holds
\* no candidate that has been applied to a transport session, and no candidate is
\* applied to a transport session twice.
C24_BufferNeverRetained ==
    /\ \A p \in Ids : NoDuplicates(pc[p].applied)
    /\ (\A p \in Ids : Suspended(p, "offer") = {} /\ Suspended(p, "answer") = {}) =>
          \A i \in DOMAIN pendingICECandidates : \A p \in Ids :
              \A k \in DOMAIN pc[p].applied : pc[p].applied[k] # pendingICECandidates[i].id

\* The transport session p rejects the remote description or the candidate it was
\* given, in this step.
TransportRejects(p) ==
    \/ SetRemoteDescriptionDone(p) /\ ~CanSetRemote(pc[p], Head(pc[p].chain).desc)
    \/ AddIceCandidateDone(p) /\ ~CanAddIce(pc[p], Head(pc[p].chain).cand)

\* C25: a rejection by the transport while it applies an offer, an answer or a
\* candidate is fatal for the attempt: in that step a registered error observer is
\* called, and the transport session and its signaling channel are closed.
C25_Step ==
    \A p \in Ids : TransportRejects(p) =>
        /\ onErrorCallback # 0 => Len(errors') = Len(errors) + 1
        /\ ~LivePc(pc'[p])
        /\ ~LiveSc(sc'[p])

C25_TransportRejectionIsFatal == [][C25_Step]_vars

\* The local candidates of transport session p sent over the signaling channels.
CandidatesSent(p) ==
    UNION {{<<s, i>> : i \in {j \in DOMAIN sc[s].sent :
                                sc[s].sent[j].kind = "candidate" /\ sc[s].sent[j].src = p}}
           : s \in Ids}

\* C26: every local ICE candidate a transport session gathers is sent over the
\* signaling channel; a MASTER whose session has an offer from remote id R as its
\* remote description addresses the candidate to R, a VIEWER sends it unaddressed.
C26_LocalCandidatesAddressed ==
    /\ \A p \in Ids : Cardinality(CandidatesSent(p)) = pc[p].gathered
    /\ \A s \in Ids : \A i \in DOMAIN sc[s].sent :
          LET e == sc[s].sent[i] IN
          e.kind = "candidate" =>
             e.rid = (IF role = "MASTER" /\ pc[e.src].remote.type = "offer"
                        THEN pc[e.src].remote.rid ELSE 0)

Last(q) == q[Len(q)]

\* C27: a VIEWER that receives an offer, and a MASTER that receives an answer,
\* ignore the message: no transport session changes (no description is set, no
\* operation is started), nothing is sent over a signaling channel, and the Pending
\* Candidate Buffer is left as it is.
C27_Step ==
    (/\ delivered' # delivered
     /\ \/ role = "VIEWER" /\ Last(delivered') = "offer"
        \/ role = "MASTER" /\ Last(delivered') = "answer")
       => UNCHANGED <<pc, sc, pendingICECandidates>>

C27_WrongRoleMessageIgnored == [][C27_Step]_vars

\* A MASTER with a transport session was delivered an answer as the latest session
\* description, and the session has no remote description and runs no operation.
C27_Witness ==
    /\ role = "MASTER"
    /\ delivered # <<>>
    /\ Last(delivered) = "answer"
    /\ peerConnection # 0
    /\ pc[peerConnection].remote = NoDesc
    /\ pc[peerConnection].chain = <<>>

\* C28: connect() runs its steps in order: the channel is resolved before the relay
\* credentials are asked for, the credentials have arrived before the transport
\* session is created, the transport session exists before the signaling channel is
\* opened, and connect() resolves only after the signaling channel reported open.
C28_ConnectStepsInOrder ==
    \A t \in Ids :
        /\ conn[t].st = "ice" => conn[t].arn = "ok"
        /\ pc[t].st # "none" => (conn[t].arn = "ok" /\ conn[t].st \notin {"describe", "endpoint", "ice"})
        /\ sc[t].st # "none" => pc[t].st # "none"
        /\ conn[t].st = "resolved" => sc[t].opened

\* A connect() has resolved: its channel was resolved, its transport session and its
\* signaling channel were created, and the channel reported open.
C28_Witness ==
    \E t \in Ids :
        /\ conn[t].st = "resolved"
        /\ conn[t].arn = "ok"
        /\ pc[t].st = "open"
        /\ sc[t].opened

\* C29: a signaling channel is opened with a client identifier if and only if the
\* role is VIEWER: a VIEWER's channel carries the identifier generated by the
\* connect() call that opened it, so a new one for every connect(), and a MASTER's
\* channel carries none.
C29_ClientIdIffViewer ==
    \A s \in Ids : sc[s].st # "none" =>
        /\ sc[s].clientId # 0 <=> role = "VIEWER"
        /\ role = "VIEWER" =>
              /\ sc[s].clientId = GenerateClientId(s)
              /\ \A u \in Ids : (u # s /\ sc[u].st # "none") => sc[u].clientId # sc[s].clientId

\* A VIEWER has called connect() twice and opened two signaling channels, each with
\* an identifier of its own.
C29_Witness ==
    /\ role = "VIEWER"
    /\ \E s, u \in Ids :
          /\ s # u
          /\ sc[s].st # "none" /\ sc[u].st # "none"
          /\ sc[s].clientId # 0 /\ sc[u].clientId # 0
          /\ sc[s].clientId # sc[u].clientId

\* C30: a GetIceServerConfig response with an empty list of relay descriptors, or
\* with none at all, is valid: connect() creates the transport session with zero
\* relay descriptors, opens the signaling channel and goes on to wait for it, and
\* reports no error.
C30_Step ==
    \A t \in Ids : (IceDone(t, "ok") /\ relays <= 0) =>
        /\ pc'[t].st = "open"
        /\ pc'[t].ice = 0
        /\ sc'[t].st = "connecting"
        /\ conn'[t].st = "wait"
        /\ errors' = errors

C30_EmptyRelayListIsValid == [][C30_Step]_vars

\* With an error observer registered and a response that carries no relay list, a
\* connect() has completed: its session has no relay descriptor, its channel
\* reported open, and no error was reported.
C30_Witness ==
    /\ relays = -1
    /\ onErrorCallback # 0
    /\ errors = <<>>
    /\ \E t \in Ids :
          /\ conn[t].st = "resolved"
          /\ pc[t].st = "open" /\ pc[t].ice = 0
          /\ sc[t].opened

\* The requests of one connect() call, in the order the code makes them.
RequestOrder == <<"describe", "endpoint", "ice", "open">>

\* C31: the engine never retries on its own.  Each connect() call makes at most one
\* channel-resolution request, one endpoint request, one relay-credential request
\* and one signaling open, in that order, whatever fails and whatever the transport
\* reports; and a step that is not a connect() call starts no connect().
C31_Step ==
    /\ \A t \in Ids :
          /\ Len(conn'[t].reqs) <= Len(RequestOrder)
          /\ conn'[t].reqs = SubSeq(RequestOrder, 1, Len(conn'[t].reqs))
    /\ nConnects' # nConnects => conn'[nConnects'].reqs = <<"describe">>
    /\ \A t \in Ids : (conn[t].st = "unused" /\ conn'[t].st # "unused") => nConnects' = t

C31_NoAutomaticRetry == [][C31_Step]_vars

\* An endpoint request failed, connect() was rejected, and the call made that
\* request once.
C31_Witness ==
    \E t \in Ids :
        /\ conn[t].st = "rejected"
        /\ conn[t].err = "endpoint"
        /\ conn[t].reqs = <<"describe", "endpoint">>

\* C32: each failure of connect() is reported to the registered error observer
\* exactly once, in the step that rejects connect(); a signaling error before open
\* does not call the observer twice.
C32_Step ==
    \A t \in Ids : (Fails(t) /\ onErrorCallback # 0) => Len(errors') = Len(errors) + 1

C32_FailureReportedOnce == [][C32_Step]_vars

\* C33: once a connect() has been rejected, its attempt sends no signaling message
\* any more: an open report of its channel starts no offer, and nothing is sent over
\* its channel.
C33_Step ==
    \A s \in Ids : conn[s].st = "rejected" =>
        /\ sc'[s].sent = sc[s].sent
        /\ SigOpen(s) => pc' = pc

C33_SilentAfterRejection == [][C33_Step]_vars

\* C34: remote candidates are applied to a transport session in the order they
\* arrived: the candidates applied are in arrival order, and no candidate has been
\* applied to the session the engine refers to while a candidate that arrived
\* earlier is still in the buffer.
C34_CandidatesInArrivalOrder ==
    /\ \A p \in Ids : Increasing(pc[p].applied)
    /\ peerConnection # 0 =>
          \A i \in DOMAIN pendingICECandidates :
              \A k \in DOMAIN pc[peerConnection].applied :
                  pendingICECandidates[i].id > pc[peerConnection].applied[k]

\* The candidates given to addIceCandidate of some transport session.
Passed(pcs) == UNION {{pcs[p].calls[k].c : k \in DOMAIN pcs[p].calls} : p \in Ids}

\* C35: no remote candidate is lost.  A candidate received while the engine refers
\* to a transport session is put in the buffer or given to the transport; and a
\* candidate leaves the buffer only when it has been given to the transport.
C35_Step ==
    /\ (nCands' # nCands /\ peerConnection # 0) =>
          \/ \E i \in DOMAIN pendingICECandidates' : pendingICECandidates'[i].id = nCands'
          \/ nCands' \in Passed(pc')
    /\ \A i \in DOMAIN pendingICECandidates :
          \/ \E j \in DOMAIN pendingICECandidates' :
                pendingICECandidates'[j] = pendingICECandidates[i]
          \/ pendingICECandidates[i].id \in Passed(pc')

C35_NoCandidateLost == [][C35_Step]_vars

\* C36: a candidate buffered during one connection attempt is never applied to the
\* transport session of a later attempt: every candidate given to a transport
\* session was received after that session was created.
C36_NoCandidateFromEarlierAttempt ==
    \A p \in Ids : \A k \in DOMAIN pc[p].calls : pc[p].calls[k].c > pc[p].born

\* disconnect() was called after the latest connect().
AfterDisconnect ==
    /\ nConnects > 0
    /\ conn[nConnects].cancelled \/ pc[nConnects].st = "closed"

\* The signaling channel delivers an offer, an answer or a candidate, or reports
\* open, in this step.
SignalingEvent ==
    \/ delivered' # delivered
    \/ nCands' # nCands
    \/ \E s \in Ids : SigOpen(s)

\* C37: after disconnect() and before a later connect(), a signaling event changes
\* nothing: no transport session changes (no description set, no candidate
\* applied, no operation started), the buffer is as it was, and nothing is sent.
C37_Step ==
    (AfterDisconnect /\ SignalingEvent) =>
        /\ pc' = pc
        /\ pendingICECandidates' = pendingICECandidates
        /\ \A s \in Ids : sc'[s].sent = sc[s].sent

C37_LateEventsChangeNothing == [][C37_Step]_vars

\* C38: a message (offer, answer or local candidate) is sent over a signaling
\* channel only while it is open: after it reported open and before disconnect()
\* closed it.
C38_Step ==
    \A s \in Ids : sc'[s].sent # sc[s].sent =>
        /\ sc[s].st = "open"
        /\ sc[s].opened
        /\ sc[s].closes = 0

====
